---- MODULE Spec2Model ----
(***************************************************************************)
(* Model of the AutoGenSrt transcription queue (src/App.tsx), its Job      *)
(* Runner (src/utils/fileHelpers.ts fileToBase64 and                       *)
(* src/services/geminiService.ts generateSubtitles).                       *)
(*                                                                         *)
(* Texts are sequences of one-character strings, optional fields of a      *)
(* QueueItem are sequences of length 0 (absent) or 1 (present).            *)
(*                                                                         *)
(* The specifications:                                                     *)
(*   Spec          the App component as its rendered controls drive it;    *)
(*   SpecContract  the same handlers invoked with any argument, which is   *)
(*                 the Queue Processor contract of the specification;      *)
(*   SpecLive      Spec with the fairness of the effect and of the calls;  *)
(*   SpecRunner    one dispatched job and any response of the model;       *)
(*   SpecConvert   one completed job, any transcript, and its export       *)
(*                 through vttToSrt (src/utils/fileHelpers.ts);            *)
(*   SpecExport    Spec with the downloads of the results;                 *)
(*   SpecAnyDraw   the handlers with any ids Math.random may draw and any  *)
(*                 value the model call may be rejected with.              *)
(* In all, the useEffect keyed on [queue, isProcessing] runs after the     *)
(* commit of a state change and before the next event is handled, hence    *)
(* every other action waits while the effect has a job to dispatch.        *)
(* Item ids are what Math.random draws (App.tsx line 16); all              *)
(* specifications but SpecAnyDraw take the draws that give no id twice,    *)
(* which is what 7 random characters do for batches of ordinary size with  *)
(* a chance of about 1 - n * n / (2 * 36^7).                               *)
(* The variable last is a history variable: it records the step taken      *)
(* last and is read by the properties only, never by a guard.              *)
(***************************************************************************)
EXTENDS Integers, Sequences, FiniteSets, TLC

VARIABLES queue, isProcessing, selectedItemId, calls, nextId, API_KEY, zips,
          mounted, last

vars == <<queue, isProcessing, selectedItemId, calls, nextId, API_KEY, zips,
          mounted, last>>

(* ---------------------------- bounds ----------------------------------- *)
MaxIds == 3
MaxQueue == 3
MaxBatch == 2
MaxPieces == 4
MaxCues == 2
MaxZips == 1

(* ------------------------- optional values ----------------------------- *)
None == <<>>
Some(v) == <<v>>

(* ------------------------------ texts ---------------------------------- *)
\* the backquote character (a TLA+ string cannot hold it)
BQ == "bq"

\* the characters of the model's texts that have no TLA+ escape: vertical
\* tab, no-break space, byte order mark, line and paragraph separator and
\* the space separators of Unicode (U+1680, U+2000 to U+200A, U+202F,
\* U+205F, U+3000, one token for them all)
VT == "u000B"
NBSP == "u00A0"
BOM == "uFEFF"
LS == "u2028"
PS == "u2029"
Zs == "Zs"

\* what String.prototype.trim strips and the class \s matches
Whitespace == {" ", "\n", "\t", "\r", "\f", VT, NBSP, BOM, LS, PS, Zs}

Lower(c) ==
  CASE c = "V" -> "v"
    [] c = "T" -> "t"
    [] c = "W" -> "w"
    [] c = "E" -> "e"
    [] c = "B" -> "b"
    [] OTHER -> c

Fence == <<BQ, BQ, BQ>>
FenceVtt == <<BQ, BQ, BQ, "v", "t", "t">>

\* TRUE iff pat occurs in s at position i; ci = case-insensitive (regex flag i)
MatchAt(s, i, pat, ci) ==
  /\ i + Len(pat) - 1 <= Len(s)
  /\ \A k \in 1..Len(pat) :
       IF ci THEN Lower(s[i + k - 1]) = Lower(pat[k])
             ELSE s[i + k - 1] = pat[k]

RECURSIVE RemoveFrom(_, _, _, _)
RemoveFrom(s, i, pat, ci) ==
  IF i > Len(s) THEN <<>>
  ELSE IF MatchAt(s, i, pat, ci) THEN RemoveFrom(s, i + Len(pat), pat, ci)
  ELSE <<s[i]>> \o RemoveFrom(s, i + 1, pat, ci)

\* String.prototype.replace with a g-flag pattern and empty replacement:
\* leftmost non-overlapping matches are deleted
RemoveAll(s, pat, ci) == RemoveFrom(s, 1, pat, ci)

RECURSIVE TrimStart(_)
TrimStart(s) ==
  IF s # <<>> /\ Head(s) \in Whitespace THEN TrimStart(Tail(s)) ELSE s

RECURSIVE TrimEnd(_)
TrimEnd(s) ==
  IF s # <<>> /\ s[Len(s)] \in Whitespace
    THEN TrimEnd(SubSeq(s, 1, Len(s) - 1)) ELSE s

Trim(s) == TrimEnd(TrimStart(s))

\* geminiService.ts line 47
cleanText(text) == Trim(RemoveAll(RemoveAll(text, FenceVtt, TRUE), Fence, FALSE))

(* ----------------------------- failures -------------------------------- *)
MsgApiKey == "API Key is missing. Please check your environment configuration."
MsgNoText == "No text generated from the model."
MsgFallback == "Processing failed"

Err(m) == [message |-> m]

\* rejections of ai.models.generateContent (rethrown at geminiService.ts
\* lines 50-53): an Error with a message, a value without one
SdkErrors == {Err(None), Err(Some("quota"))}

\* values that are no objects: reading their message throws
Nullish == {[type |-> "undefined"], [type |-> "null"]}

\* any value a promise can be rejected with
AnyRejections == SdkErrors \cup Nullish

TypeError == "TypeError: Cannot read properties"

\* rejections of fileToBase64: the ProgressEvent of line 16, an event of type
\* 'error' that carries no message (readAsDataURL always loads a string, so
\* line 13 is not reached)
ProgressEvent == [message |-> None, type |-> "error"]

EncoderErrors == {ProgressEvent}

\* response.text of the model: absent/empty, a bare fence, a fenced document
ModelTexts ==
  { <<>>,
    <<BQ, BQ, BQ>>,
    <<BQ, BQ, BQ, "V", "T", "T", "\n", "W", "\n", BQ, BQ, BQ, "\n">> }

\* mutant: the message is used as it is, without the fallback
messageOfNoFallback(error) ==
  IF error \in Nullish THEN TypeError
  ELSE IF error.message = None THEN "undefined" ELSE error.message[1]

\* App.tsx line 59: error.message || 'Processing failed'
messageOf(error) ==
  IF error \in Nullish THEN TypeError
  ELSE IF error.message = None \/ error.message = Some("") THEN MsgFallback
  ELSE error.message[1]

\* geminiService.ts lines 41-49: the outcome of generateSubtitles for the
\* text the model responded with
generateSubtitles(text) ==
  IF text = <<>> THEN [ok |-> FALSE, text |-> <<>>, error |-> Err(Some(MsgNoText))]
  ELSE [ok |-> TRUE, text |-> cleanText(text), error |-> Err(None)]

(* ------------------------------ queue ---------------------------------- *)
\* the names of the files of a selected folder, in the order the picker lists
\* them: one take in two formats, a name with two full stops, a name with none
Files ==
  << <<"a", ".", "m">>, <<"a", ".", "w">>, <<"b", ".", "c", ".", "m">>, <<"d">> >>

FileAt(i) == Files[((i - 1) % Len(Files)) + 1]

Ids(q) == {q[i].id : i \in 1..Len(q)}

\* queue.find(q => q.id === id) (App.tsx line 123): the first such job
IndexOf(q, id) ==
  IF id \in Ids(q)
    THEN CHOOSE i \in 1..Len(q) :
           q[i].id = id /\ \A j \in 1..(i - 1) : q[j].id # id
    ELSE 0

StatusOf(q, id) == IF id \in Ids(q) THEN q[IndexOf(q, id)].status ELSE "none"

\* App.tsx lines 15-19
newItems(files, ids) ==
  [i \in 1..Len(files) |->
     [id |-> ids[i], file |-> files[i], status |-> "idle",
      subtitles |-> None, error |-> None]]

\* mutant: a failed job counts as waiting too
findIdleOrError(q) ==
  IF \E i \in 1..Len(q) : q[i].status \in {"idle", "error"}
    THEN CHOOSE i \in 1..Len(q) :
           /\ q[i].status \in {"idle", "error"}
           /\ \A j \in 1..(i - 1) : q[j].status \notin {"idle", "error"}
    ELSE 0

\* mutant: the latest idle job is found instead of the earliest
findIdleLast(q) ==
  IF \E i \in 1..Len(q) : q[i].status = "idle"
    THEN CHOOSE i \in 1..Len(q) :
           /\ q[i].status = "idle"
           /\ \A j \in (i + 1)..Len(q) : q[j].status # "idle"
    ELSE 0

\* App.tsx line 35: queue.find(item => item.status === 'idle'), 0 if none
findIdle(q) ==
  IF \E i \in 1..Len(q) : q[i].status = "idle"
    THEN CHOOSE i \in 1..Len(q) :
           /\ q[i].status = "idle"
           /\ \A j \in 1..(i - 1) : q[j].status # "idle"
    ELSE 0

\* App.tsx line 41
markProcessing(q, id) ==
  [i \in 1..Len(q) |->
     IF q[i].id = id THEN [q[i] EXCEPT !.status = "processing"] ELSE q[i]]

\* mutant: the update does not look the job up by id
markCompletedAny(q, id, generatedText) ==
  [i \in 1..Len(q) |->
     [q[i] EXCEPT !.status = "completed", !.subtitles = Some(generatedText)]]

\* App.tsx lines 48-52
markCompleted(q, id, generatedText) ==
  [i \in 1..Len(q) |->
     IF q[i].id = id
       THEN [q[i] EXCEPT !.status = "completed", !.subtitles = Some(generatedText)]
       ELSE q[i]]

\* mutant: the update does not look the job up by id
markErrorAny(q, id, error) ==
  [i \in 1..Len(q) |->
     [q[i] EXCEPT !.status = "error", !.error = Some(messageOf(error))]]

\* App.tsx lines 56-60
markError(q, id, error) ==
  [i \in 1..Len(q) |->
     IF q[i].id = id
       THEN [q[i] EXCEPT !.status = "error", !.error = Some(messageOf(error))]
       ELSE q[i]]

\* mutant: the first job is dropped whatever its id
filterOutHead(q, id) == IF q = <<>> THEN <<>> ELSE Tail(q)

RECURSIVE filterOut(_, _)
\* App.tsx line 71: prev.filter(q => q.id !== id)
filterOut(q, id) ==
  IF q = <<>> THEN <<>>
  ELSE IF Head(q).id = id THEN filterOut(Tail(q), id)
  ELSE <<Head(q)>> \o filterOut(Tail(q), id)

\* mutant: the retried job is taken out and put back at the end of the queue
retryMapToEnd(q, id) ==
  IF id \in Ids(q)
    THEN filterOut(q, id) \o
           <<[q[IndexOf(q, id)] EXCEPT !.status = "idle", !.error = None,
                                       !.subtitles = None]>>
    ELSE q

\* mutant: the result of the previous run is kept
retryMapKeepsResult(q, id) ==
  [i \in 1..Len(q) |->
     IF q[i].id = id
       THEN [q[i] EXCEPT !.status = "idle", !.error = None]
       ELSE q[i]]

\* mutant: the failure of the previous run is kept
retryMapKeepsError(q, id) ==
  [i \in 1..Len(q) |->
     IF q[i].id = id
       THEN [q[i] EXCEPT !.status = "idle", !.subtitles = None]
       ELSE q[i]]

\* App.tsx lines 81-86
retryMap(q, id) ==
  [i \in 1..Len(q) |->
     IF q[i].id = id
       THEN [q[i] EXCEPT !.status = "idle", !.error = None, !.subtitles = None]
       ELSE q[i]]

(* ----------------------------- scheduling ------------------------------ *)
\* the effect of lines 29-67 has a job to start (lines 32 and 36 do not return)
EffectEnabled == mounted /\ ~isProcessing /\ findIdle(queue) # 0

\* the App is mounted and no effect run is pending: the next event can be
\* handled
Quiet == mounted /\ ~EffectEnabled

\* record of the step taken last: the operation, the id it was about, the
\* status that job had before the step ("none" if no such job) and, for the
\* resolution of a call whose job exists, the text or failure it delivers
Op(op, id, was, arg) == [op |-> op, id |-> id, was |-> was, arg |-> arg]

\* an outstanding run of lines 43-63 for the nextItem captured at line 35,
\* suspended at the awaits of lines 44-45 (the resolution of fileToBase64
\* alone changes no state, so both awaits are one suspension)
Call(item) == [id |-> item.id, file |-> item.file]

RemoveAt(s, k) == SubSeq(s, 1, k - 1) \o SubSeq(s, k + 1, Len(s))

Init ==
  /\ queue = <<>>
  /\ isProcessing = FALSE
  /\ selectedItemId = 0
  /\ calls = <<>>
  /\ nextId = 1
  /\ API_KEY \in {"", "key"}
  /\ zips = <<>>
  /\ mounted = TRUE
  /\ last = Op("init", 0, "none", <<>>)

(* ------------------------------ handlers ------------------------------- *)
\* mutant: the new jobs are put in front of the queue
handleFilesSelectInFront(files, ids) ==
  /\ nextId + Len(files) - 1 <= MaxIds
  /\ Len(queue) + Len(files) <= MaxQueue
  /\ queue' = newItems(files, ids) \o queue
  /\ nextId' = nextId + Len(files)
  /\ selectedItemId' =
       IF selectedItemId = 0 /\ Len(files) > 0 THEN ids[1] ELSE selectedItemId
  /\ last' = Op("enqueue", ids[1], "none", <<>>)
  /\ UNCHANGED <<isProcessing, calls, API_KEY, zips, mounted>>

\* App.tsx lines 14-26, ids being the draws of line 16 for the files in turn;
\* nextId counts the draws. The first two conjuncts are the bounds of the
\* model on the draws and on the length of the queue, the code has no limit
handleFilesSelect(files, ids) ==
  /\ nextId + Len(files) - 1 <= MaxIds
  /\ Len(queue) + Len(files) <= MaxQueue
  /\ queue' = queue \o newItems(files, ids)
  /\ nextId' = nextId + Len(files)
  /\ selectedItemId' =
       IF selectedItemId = 0 /\ Len(files) > 0 THEN ids[1] ELSE selectedItemId
  /\ last' = Op("enqueue", ids[1], "none", <<>>)
  /\ UNCHANGED <<isProcessing, calls, API_KEY, zips, mounted>>

\* App.tsx lines 29-44: the effect run up to its first await
processNextItem ==
  /\ EffectEnabled
  /\ LET nextItem == queue[findIdle(queue)] IN
       /\ isProcessing' = TRUE
       /\ queue' = markProcessing(queue, nextItem.id)
       /\ calls' = Append(calls, Call(nextItem))
       /\ last' = Op("dispatch", nextItem.id, nextItem.status, <<>>)
  /\ UNCHANGED <<selectedItemId, nextId, API_KEY, zips, mounted>>

\* mutant: the run returns after line 52 without the finally of lines 61-63
completeCallKeepsFlag(k, generatedText) ==
  /\ queue' = markCompleted(queue, calls[k].id, generatedText)
  /\ isProcessing' = isProcessing
  /\ calls' = RemoveAt(calls, k)
  /\ last' = Op("completed", calls[k].id, StatusOf(queue, calls[k].id),
                IF calls[k].id \in Ids(queue) THEN generatedText ELSE <<>>)
  /\ UNCHANGED <<selectedItemId, nextId, API_KEY, zips, mounted>>

\* App.tsx lines 47-52 and 61-63: the call k continues after its awaits
completeCall(k, generatedText) ==
  /\ queue' = markCompleted(queue, calls[k].id, generatedText)
  /\ isProcessing' = FALSE
  /\ calls' = RemoveAt(calls, k)
  /\ last' = Op("completed", calls[k].id, StatusOf(queue, calls[k].id),
                IF calls[k].id \in Ids(queue) THEN generatedText ELSE <<>>)
  /\ UNCHANGED <<selectedItemId, nextId, API_KEY, zips, mounted>>

\* mutant: the catch block returns without the finally of lines 61-63
failCallKeepsFlag(k, error) ==
  /\ queue' = markError(queue, calls[k].id, error)
  /\ isProcessing' = isProcessing
  /\ calls' = RemoveAt(calls, k)
  /\ last' = Op("failed", calls[k].id, StatusOf(queue, calls[k].id),
                IF calls[k].id \in Ids(queue) THEN error ELSE <<>>)
  /\ UNCHANGED <<selectedItemId, nextId, API_KEY, zips, mounted>>

\* App.tsx lines 54-63: the call k lands in the catch block. If the value
\* caught is undefined or null and the job is in the queue, the updater of
\* line 56 throws when React runs it for the next render, and the App, which
\* has no error boundary, is unmounted: no update is committed
failCall(k, error) ==
  IF calls[k].id \in Ids(queue) /\ messageOf(error) = TypeError
    THEN /\ mounted' = FALSE
         /\ calls' = RemoveAt(calls, k)
         /\ last' = Op("unmounted", calls[k].id, StatusOf(queue, calls[k].id),
                       error)
         /\ UNCHANGED <<queue, isProcessing, selectedItemId, nextId, API_KEY,
                        zips>>
    ELSE /\ queue' = markError(queue, calls[k].id, error)
         /\ isProcessing' = FALSE
         /\ calls' = RemoveAt(calls, k)
         /\ last' = Op("failed", calls[k].id, StatusOf(queue, calls[k].id),
                       IF calls[k].id \in Ids(queue) THEN error ELSE <<>>)
         /\ UNCHANGED <<selectedItemId, nextId, API_KEY, zips, mounted>>

\* mutant: fileToBase64 is awaited outside the try block, its rejection ends
\* the run without catch and finally
EncoderRejectsUncaught(k, error) ==
  /\ Quiet
  /\ calls' = RemoveAt(calls, k)
  /\ last' = Op("failed", calls[k].id, StatusOf(queue, calls[k].id),
                IF calls[k].id \in Ids(queue) THEN error ELSE <<>>)
  /\ UNCHANGED <<queue, isProcessing, selectedItemId, nextId, API_KEY, zips, mounted>>

\* fileToBase64 rejects (fileHelpers.ts line 16)
EncoderRejects(k, error) ==
  /\ Quiet
  /\ failCall(k, error)

\* fileToBase64 resolves and line 45 calls generateSubtitles, which throws
\* at once without an API key (geminiService.ts lines 6-8)
ApiKeyMissing(k) ==
  /\ Quiet
  /\ API_KEY = ""
  /\ failCall(k, Err(Some(MsgApiKey)))

\* fileToBase64 resolves and the model responds with text
\* (geminiService.ts lines 41-49)
ModelResponds(k, text) ==
  /\ Quiet
  /\ API_KEY # ""
  /\ LET r == generateSubtitles(text) IN
       IF r.ok THEN completeCall(k, r.text) ELSE failCall(k, r.error)

\* fileToBase64 resolves and the model call rejects
\* (geminiService.ts lines 50-53 rethrow)
ModelRejects(k, error) ==
  /\ Quiet
  /\ API_KEY # ""
  /\ failCall(k, error)

\* mutant: the handler returns early while a job is being processed
removeItemUnlessBusy(id) ==
  /\ ~isProcessing
  /\ queue' = filterOut(queue, id)
  /\ selectedItemId' = IF selectedItemId = id THEN 0 ELSE selectedItemId
  /\ last' = Op("remove", id, StatusOf(queue, id), <<>>)
  /\ UNCHANGED <<isProcessing, calls, nextId, API_KEY, zips, mounted>>

\* App.tsx lines 69-75
removeItem(id) ==
  /\ queue' = filterOut(queue, id)
  /\ selectedItemId' = IF selectedItemId = id THEN 0 ELSE selectedItemId
  /\ last' = Op("remove", id, StatusOf(queue, id), <<>>)
  /\ UNCHANGED <<isProcessing, calls, nextId, API_KEY, zips, mounted>>

\* App.tsx lines 77-87
handleRetry(id) ==
  /\ queue' = retryMap(queue, id)
  /\ last' = Op("retry", id, StatusOf(queue, id), <<>>)
  /\ UNCHANGED <<isProcessing, selectedItemId, calls, nextId, API_KEY, zips, mounted>>

\* App.tsx lines 89-95
reset ==
  /\ queue' = <<>>
  /\ selectedItemId' = 0
  /\ isProcessing' = FALSE
  /\ last' = Op("clear", 0, "none", <<>>)
  /\ UNCHANGED <<calls, nextId, API_KEY, zips, mounted>>

\* App.tsx line 188
selectItem(id) ==
  /\ selectedItemId' = id
  /\ last' = Op("select", id, StatusOf(queue, id), <<>>)
  /\ UNCHANGED <<queue, isProcessing, calls, nextId, API_KEY, zips, mounted>>

(* ----------------------- the rendered controls ------------------------- *)
Batches == {[i \in 1..n |-> FileAt(i)] : n \in 1..MaxBatch}

\* the draws of Math.random for n files that give ids not drawn before
FreshIds(n) == [i \in 1..n |-> nextId + i - 1]

\* any draws of Math.random for n files
Draws(n) == [1..n -> 1..MaxIds]

\* App.tsx lines 133-146: the uploader is rendered for the empty queue only
\* and is disabled while isProcessing; FileUploader.tsx line 56 passes
\* non-empty batches only
Upload(files) ==
  /\ Quiet
  /\ queue = <<>>
  /\ ~isProcessing
  /\ handleFilesSelect(files, FreshIds(Len(files)))

\* mutant: the retry button is rendered for every job
ClickRetryAny(id) ==
  /\ Quiet
  /\ id \in Ids(queue)
  /\ handleRetry(id)

\* App.tsx lines 229-240 (list button) and 302-318 (detail button)
ClickRetry(id) ==
  /\ Quiet
  /\ \/ \E i \in 1..Len(queue) :
          queue[i].id = id /\ queue[i].status \in {"error", "completed"}
     \/ selectedItemId = id /\ StatusOf(queue, id) = "error"
  /\ handleRetry(id)

\* mutant: the remove button is rendered for every job
ClickRemoveAny(id) ==
  /\ Quiet
  /\ id \in Ids(queue)
  /\ removeItem(id)

\* App.tsx lines 242-253
ClickRemove(id) ==
  /\ Quiet
  /\ \E i \in 1..Len(queue) : queue[i].id = id /\ queue[i].status # "processing"
  /\ removeItem(id)

\* App.tsx lines 174-179: rendered in the non-empty branch of line 133
ClickClear ==
  /\ Quiet
  /\ queue # <<>>
  /\ reset

\* App.tsx lines 185-188
ClickItem(id) ==
  /\ Quiet
  /\ id \in Ids(queue)
  /\ selectedItemId # id
  /\ selectItem(id)

Next ==
  \/ processNextItem
  \/ \E files \in Batches : Upload(files)
  \/ \E id \in 1..MaxIds : ClickRetry(id)
  \/ \E id \in 1..MaxIds : ClickRemove(id)
  \/ ClickClear
  \/ \E id \in 1..MaxIds : ClickItem(id)
  \/ \E k \in 1..Len(calls) : ApiKeyMissing(k)
  \/ \E k \in 1..Len(calls) : \E error \in EncoderErrors : EncoderRejects(k, error)
  \/ \E k \in 1..Len(calls) : \E text \in ModelTexts : ModelResponds(k, text)
  \/ \E k \in 1..Len(calls) : \E error \in SdkErrors : ModelRejects(k, error)

Spec == Init /\ [][Next]_vars

(* ------------------- the Queue Processor contract ---------------------- *)
\* enqueue(items), retry(id), remove(id), clear() invoked in any state, on
\* any job of the queue whatever its status
Enqueue(files) == Quiet /\ handleFilesSelect(files, FreshIds(Len(files)))

Retry(id) == Quiet /\ id \in Ids(queue) /\ handleRetry(id)

Remove(id) == Quiet /\ id \in Ids(queue) /\ removeItem(id)

Clear == Quiet /\ reset

\* response.text of the model in the contract: absent/empty, a fenced
\* document (the empty result of a bare fence is exercised through the
\* rendered controls)
ContractTexts ==
  { <<>>,
    <<BQ, BQ, BQ, "V", "T", "T", "\n", "W", "\n", BQ, BQ, BQ, "\n">> }

NextContract ==
  \/ processNextItem
  \/ \E files \in Batches : Enqueue(files)
  \/ \E id \in 1..MaxIds : Retry(id)
  \/ \E id \in 1..MaxIds : Remove(id)
  \/ Clear
  \/ \E k \in 1..Len(calls) : ApiKeyMissing(k)
  \/ \E k \in 1..Len(calls) : \E error \in EncoderErrors : EncoderRejects(k, error)
  \/ \E k \in 1..Len(calls) : \E text \in ContractTexts : ModelResponds(k, text)
  \/ \E k \in 1..Len(calls) : \E error \in SdkErrors : ModelRejects(k, error)

SpecContract == Init /\ [][NextContract]_vars

(* ------------------------------ fairness ------------------------------- *)
\* the call k leaves its suspension, whichever way
Resolves(k) ==
  \/ ApiKeyMissing(k)
  \/ \E error \in EncoderErrors : EncoderRejects(k, error)
  \/ \E text \in ModelTexts : ModelResponds(k, text)
  \/ \E error \in SdkErrors : ModelRejects(k, error)

CallResolves == \E k \in 1..Len(calls) : Resolves(k)

\* React runs a pending effect (lines 29-67, dependencies of line 67), and
\* the promises awaited at lines 44-45 settle; the user owes no step
Fairness == WF_vars(processNextItem) /\ WF_vars(CallResolves)

SpecLive == Init /\ [][Next]_vars /\ Fairness

(* ------------------- the Job Runner on any response -------------------- *)
\* the header token the prompt asks for (geminiService.ts line 17)
Header == <<"W", "E", "B", "V", "T", "T">>

\* what a response of the model is made of: backquotes, fences with and
\* without the language tag in either case, the header, white space, text
Pieces ==
  { <<BQ>>, Fence, FenceVtt, <<BQ, BQ, BQ, "V", "T", "T">>, Header,
    <<"\n">>, <<" ">>, <<"\f">>, <<"x">> }

RECURSIVE TextsOf(_)
TextsOf(n) ==
  IF n = 0 THEN {<<>>}
  ELSE LET shorter == TextsOf(n - 1) IN
         shorter \cup {t \o p : t \in shorter, p \in Pieces}

\* response.text (geminiService.ts line 41): any text of at most MaxPieces pieces
RunnerTexts == TextsOf(MaxPieces)

\* one job has been uploaded and dispatched, its call is in flight
InitRunner ==
  /\ queue = markProcessing(newItems(<<FileAt(1)>>, <<1>>), 1)
  /\ isProcessing = TRUE
  /\ selectedItemId = 1
  /\ calls = <<Call(newItems(<<FileAt(1)>>, <<1>>)[1])>>
  /\ nextId = 2
  /\ API_KEY = "key"
  /\ zips = <<>>
  /\ mounted = TRUE
  /\ last = Op("dispatch", 1, "idle", <<>>)

NextRunner ==
  \E k \in 1..Len(calls) : \E text \in RunnerTexts : ModelResponds(k, text)

SpecRunner == InitRunner /\ [][NextRunner]_vars

(* --------------------------- the converter ----------------------------- *)
Arrow == <<"-", "-", ">">>

\* String.prototype.includes
includes(s, pat) == \E i \in 1..Len(s) : MatchAt(s, i, pat, FALSE)

\* the last position of the run of white space that starts at i (i - 1 if
\* s[i] is no white space)
RECURSIVE RunEnd(_, _)
RunEnd(s, i) ==
  IF i <= Len(s) /\ s[i] \in Whitespace THEN RunEnd(s, i + 1) ELSE i - 1

\* mutant: the header and one line feed only, /^WEBVTT\n/
cleanVttOneFeed(vtt) ==
  IF MatchAt(vtt, 1, Header \o <<"\n">>, FALSE)
    THEN SubSeq(vtt, Len(Header) + 2, Len(vtt))
    ELSE vtt

\* fileHelpers.ts line 45: vtt.replace(/^WEBVTT\s*(\r\n|\n)+/, ''): the header
\* at the start and the white space behind it, up to the last line feed of
\* that white space, are removed; without a line feed there nothing matches
cleanVtt(vtt) ==
  IF ~MatchAt(vtt, 1, Header, FALSE) THEN vtt
  ELSE LET e == RunEnd(vtt, Len(Header) + 1)
           feeds == {q \in (Len(Header) + 1)..e : vtt[q] = "\n"}
       IN IF feeds = {} THEN vtt
          ELSE SubSeq(vtt, (CHOOSE q \in feeds : \A r \in feeds : r <= q) + 1,
                      Len(vtt))

\* the last position of the run of line feeds that starts at i
RECURSIVE FeedsEnd(_, _)
FeedsEnd(s, i) ==
  IF i <= Len(s) /\ s[i] = "\n" THEN FeedsEnd(s, i + 1) ELSE i - 1

\* fileHelpers.ts line 47: s.split(/\n\n+/), cur being the block read so far
RECURSIVE splitBlocks(_, _, _)
splitBlocks(s, i, cur) ==
  IF i > Len(s) THEN <<cur>>
  ELSE IF s[i] = "\n" /\ i < Len(s) /\ s[i + 1] = "\n"
    THEN <<cur>> \o splitBlocks(s, FeedsEnd(s, i) + 1, <<>>)
    ELSE splitBlocks(s, i + 1, Append(cur, s[i]))

\* fileHelpers.ts line 50: block.split('\n')
RECURSIVE splitLines(_, _, _)
splitLines(s, i, cur) ==
  IF i > Len(s) THEN <<cur>>
  ELSE IF s[i] = "\n" THEN <<cur>> \o splitLines(s, i + 1, <<>>)
  ELSE splitLines(s, i + 1, Append(cur, s[i]))

\* Array.prototype.join
RECURSIVE join(_, _)
join(parts, sep) ==
  IF parts = <<>> THEN <<>>
  ELSE IF Len(parts) = 1 THEN parts[1]
  ELSE parts[1] \o sep \o join(Tail(parts), sep)

\* mutant: replace without the g flag, the first full stop only
dotsToCommasOnce(line) ==
  [i \in 1..Len(line) |->
     IF line[i] = "." /\ (\A j \in 1..(i - 1) : line[j] # ".")
       THEN "," ELSE line[i]]

\* fileHelpers.ts line 57: line.replace(/\./g, ',')
dotsToCommas(line) ==
  [i \in 1..Len(line) |-> IF line[i] = "." THEN "," ELSE line[i]]

\* mutant: a cue-index line is put in front of the block
convertBlockNumbered(block) ==
  LET lines == splitLines(block, 1, <<>>)
      found == {i \in 1..Len(lines) : includes(lines[i], Arrow)}
  IN IF found = {} THEN <<>>
     ELSE LET timeIdx == CHOOSE i \in found : \A j \in found : i <= j
          IN join(<<<<"1">>>> \o
                    [lines EXCEPT ![timeIdx] = dotsToCommas(lines[timeIdx])],
                  <<"\n">>)

\* fileHelpers.ts lines 49-61: the callback of blocks.map
convertBlock(block) ==
  LET lines == splitLines(block, 1, <<>>)
      found == {i \in 1..Len(lines) : includes(lines[i], Arrow)}
  IN IF found = {} THEN <<>>
     ELSE LET timeIdx == CHOOSE i \in found : \A j \in found : i <= j
          IN join([lines EXCEPT ![timeIdx] = dotsToCommas(lines[timeIdx])],
                  <<"\n">>)

\* mutant: the blocks without a time-range line are not filtered out
vttToSrtKeepsEmpty(vtt) ==
  IF vtt = <<>> THEN <<>>
  ELSE LET blocks == splitBlocks(cleanVtt(vtt), 1, <<>>)
           mapped == [i \in 1..Len(blocks) |-> convertBlock(blocks[i])]
       IN join(mapped, <<"\n", "\n">>)

\* fileHelpers.ts lines 40-62
vttToSrt(vtt) ==
  IF vtt = <<>> THEN <<>>
  ELSE LET blocks == splitBlocks(cleanVtt(vtt), 1, <<>>)
           mapped == [i \in 1..Len(blocks) |-> convertBlock(blocks[i])]
       IN join(SelectSeq(mapped, LAMBDA b : Trim(b) # <<>>), <<"\n", "\n">>)

(* ------------------- the converter on any transcript ------------------- *)
LF == <<"\n">>
CRLF == <<"\r", "\n">>

\* the line terminators of the format
Eols == {LF, CRLF}

\* the time-range line of the i-th cue
TimeLine(i) ==
  LET d == <<"1", "2", "3", "4">>[i]
  IN <<d, ".", "0", "-", "-", ">", d, ".", "5">>

\* the shapes of a cue: time and text; identifier, time and text with a full
\* stop; time and two lines of text
Shapes == {"plain", "named", "long"}

Cue(i, shape, eol) ==
  CASE shape = "plain" -> TimeLine(i) \o eol \o <<"x">>
    [] shape = "named" -> <<"c">> \o eol \o TimeLine(i) \o eol \o <<"x", ".">>
    [] shape = "long" -> TimeLine(i) \o eol \o <<"x">> \o eol \o <<"y", ".", "z">>

\* the end of a line and gap blank lines, written with the terminator eol
RECURSIVE Blank(_, _)
Blank(gap, eol) == IF gap = 0 THEN eol ELSE eol \o Blank(gap - 1, eol)

\* the text a header line may carry behind the token
Titles == {<<>>, <<" ", "t">>}

\* the header line, then the cues of the given shapes, blank lines between
\* them
Doc(title, shapes, eol, gap) ==
  Header \o title \o Blank(gap, eol) \o
    join([i \in 1..Len(shapes) |-> Cue(i, shapes[i], eol)], Blank(gap, eol))

ShapeSeqs == UNION {[1..n -> Shapes] : n \in 1..MaxCues}

WellFormedDocs ==
  {Doc(title, shapes, eol, gap) :
     title \in Titles, shapes \in ShapeSeqs, eol \in Eols, gap \in 1..2}

\* what any other transcript is made of
VttPieces ==
  { Header, Header \o LF, LF, CRLF, TimeLine(1), <<"x">>, <<".">>, <<" ">>,
    <<"\f">> }

RECURSIVE VttTextsOf(_)
VttTextsOf(n) ==
  IF n = 0 THEN {<<>>}
  ELSE LET shorter == VttTextsOf(n - 1) IN
         shorter \cup {t \o p : t \in shorter, p \in VttPieces}

\* response.text of the model (geminiService.ts line 41)
VttTexts == WellFormedDocs \cup (VttTextsOf(MaxPieces) \ {<<>>})

\* one job has been uploaded, dispatched and completed with the result
\* generateSubtitles returns for a response of the model
InitConvert ==
  /\ \E text \in VttTexts :
       queue = markCompleted(markProcessing(newItems(<<FileAt(1)>>, <<1>>), 1), 1,
                             generateSubtitles(text).text)
  /\ isProcessing = FALSE
  /\ selectedItemId = 1
  /\ calls = <<>>
  /\ nextId = 2
  /\ API_KEY = "key"
  /\ zips = <<>>
  /\ mounted = TRUE
  /\ last = Op("completed", 1, "processing", queue[1].subtitles[1])

\* SubtitleViewer (part_000) lines 47-51, rendered for the selected job if it
\* is completed with a non-empty result (App.tsx lines 299-301); the content
\* handed to downloadTextFile is recorded
handleDownloadSrt ==
  /\ selectedItemId \in Ids(queue)
  /\ LET activeItem == queue[IndexOf(queue, selectedItemId)] IN
       /\ activeItem.status = "completed"
       /\ activeItem.subtitles # None
       /\ activeItem.subtitles # Some(<<>>)
       /\ last' = Op("downloadSrt", activeItem.id, activeItem.status,
                     vttToSrt(activeItem.subtitles[1]))
  /\ UNCHANGED <<queue, isProcessing, selectedItemId, calls, nextId, API_KEY, zips, mounted>>

\* fileHelpers.ts lines 40-62: the exported converter applied to the result
\* of the job, whatever the caller; what it returns is recorded
convert ==
  /\ queue # <<>>
  /\ queue[1].subtitles # None
  /\ last' = Op("convert", queue[1].id, queue[1].status,
                vttToSrt(queue[1].subtitles[1]))
  /\ UNCHANGED <<queue, isProcessing, selectedItemId, calls, nextId, API_KEY, zips, mounted>>

NextConvert == handleDownloadSrt \/ convert

SpecConvert == InitConvert /\ [][NextConvert]_vars

(* ------------------------------ export --------------------------------- *)
\* SubtitleViewer (part_000) lines 42-45, rendered as handleDownloadSrt is;
\* the content handed to downloadTextFile is recorded
handleDownloadVtt ==
  /\ selectedItemId \in Ids(queue)
  /\ LET activeItem == queue[IndexOf(queue, selectedItemId)] IN
       /\ activeItem.status = "completed"
       /\ activeItem.subtitles # None
       /\ activeItem.subtitles # Some(<<>>)
       /\ last' = Op("downloadVtt", activeItem.id, activeItem.status,
                     activeItem.subtitles[1])
  /\ UNCHANGED <<queue, isProcessing, selectedItemId, calls, nextId, API_KEY, zips, mounted>>

\* App.tsx lines 105-106: the name up to its last full stop
baseName(name) ==
  LET dots == {i \in 1..Len(name) : name[i] = "."}
  IN IF dots = {} THEN name
     ELSE SubSeq(name, 1, (CHOOSE i \in dots : \A j \in dots : j <= i) - 1)

\* App.tsx line 98
completedItems(q) ==
  SelectSeq(q, LAMBDA item : /\ item.status = "completed"
                             /\ item.subtitles # None
                             /\ item.subtitles # Some(<<>>))

\* App.tsx lines 101-118
filesToZip(q) ==
  [i \in 1..Len(completedItems(q)) |->
     [name |-> baseName(completedItems(q)[i].file) \o <<".", "s", "r", "t">>,
      content |-> vttToSrt(completedItems(q)[i].subtitles[1])]]

\* fileHelpers.ts lines 65-69: zip.file(name, content) for each file in turn;
\* an entry of the same name is replaced, so the last file of a name stays
downloadAsZip(files) ==
  {files[i] : i \in {i \in 1..Len(files) :
                       \A j \in (i + 1)..Len(files) : files[j].name # files[i].name}}

\* App.tsx lines 97-120 and fileHelpers.ts lines 65-71, up to the await of
\* zip.generateAsync: the entries of the archive are fixed and recorded, the
\* archive is being generated
handleDownloadAll ==
  /\ completedItems(queue) # <<>>
  /\ Len(zips) < MaxZips
  /\ zips' = Append(zips, downloadAsZip(filesToZip(queue)))
  /\ last' = Op("downloadAll", 0, "none", downloadAsZip(filesToZip(queue)))
  /\ UNCHANGED <<queue, isProcessing, selectedItemId, calls, nextId, API_KEY,
                 mounted>>

\* fileHelpers.ts lines 71-79: generateAsync resolves and the archive k is
\* handed to the browser, whatever has become of the queue and of the App
\* since the click
ZipReady(k) ==
  /\ ~EffectEnabled
  /\ zips' = RemoveAt(zips, k)
  /\ last' = Op("zipSaved", 0, "none", zips[k])
  /\ UNCHANGED <<queue, isProcessing, selectedItemId, calls, nextId, API_KEY,
                 mounted>>

\* App.tsx lines 162-172: rendered when a job is completed
ClickDownloadAll ==
  /\ Quiet
  /\ \E i \in 1..Len(queue) : queue[i].status = "completed"
  /\ handleDownloadAll

\* the buttons of the viewer (part_000), rendered at App.tsx lines 299-301
ClickDownloadVtt == Quiet /\ handleDownloadVtt

ClickDownloadSrt == Quiet /\ handleDownloadSrt

\* response.text of the model: as above, or a document with one cue
ExportTexts ==
  ModelTexts \cup {Header \o <<"\n", "\n">> \o TimeLine(1) \o <<"\n", "x">>}

\* the batches picked from the folder: one or more files, from the first or
\* the second on
ExportBatches ==
  {[i \in 1..n |-> FileAt(k + i - 1)] : n \in 1..MaxBatch, k \in 1..2}

NextExport ==
  \/ processNextItem
  \/ \E files \in ExportBatches : Upload(files)
  \/ \E id \in 1..MaxIds : ClickRetry(id)
  \/ \E id \in 1..MaxIds : ClickRemove(id)
  \/ ClickClear
  \/ \E id \in 1..MaxIds : ClickItem(id)
  \/ \E k \in 1..Len(calls) : ApiKeyMissing(k)
  \/ \E k \in 1..Len(calls) : \E error \in EncoderErrors : EncoderRejects(k, error)
  \/ \E k \in 1..Len(calls) : \E text \in ExportTexts : ModelResponds(k, text)
  \/ \E k \in 1..Len(calls) : \E error \in SdkErrors : ModelRejects(k, error)
  \/ ClickDownloadAll
  \/ \E k \in 1..Len(zips) : ZipReady(k)
  \/ ClickDownloadVtt
  \/ ClickDownloadSrt

SpecExport == Init /\ [][NextExport]_vars

(* ------------------ any draw of ids, any rejection --------------------- *)
\* App.tsx lines 14-26 with any ids Math.random may draw: an id may be drawn
\* twice, and the jobs that share it are marked, reset and removed together
UploadAnyDraw(files, ids) ==
  /\ Quiet
  /\ queue = <<>>
  /\ ~isProcessing
  /\ handleFilesSelect(files, ids)

\* lines 44-63 for a call that settles after the App was unmounted: the
\* updates of an unmounted component are dropped
SettlesUnmounted(k) ==
  /\ ~mounted
  /\ calls' = RemoveAt(calls, k)
  /\ last' = Op("dropped", calls[k].id, StatusOf(queue, calls[k].id), <<>>)
  /\ UNCHANGED <<queue, isProcessing, selectedItemId, nextId, API_KEY, zips,
                 mounted>>

NextAnyDraw ==
  \/ processNextItem
  \/ \E files \in Batches : \E ids \in Draws(Len(files)) :
       UploadAnyDraw(files, ids)
  \/ \E id \in 1..MaxIds : ClickRetry(id)
  \/ \E id \in 1..MaxIds : ClickRemove(id)
  \/ ClickClear
  \/ \E id \in 1..MaxIds : ClickItem(id)
  \/ \E k \in 1..Len(calls) : ApiKeyMissing(k)
  \/ \E k \in 1..Len(calls) : \E error \in EncoderErrors : EncoderRejects(k, error)
  \/ \E k \in 1..Len(calls) : \E text \in ModelTexts : ModelResponds(k, text)
  \/ \E k \in 1..Len(calls) : \E error \in AnyRejections : ModelRejects(k, error)
  \/ \E k \in 1..Len(calls) : SettlesUnmounted(k)
  \/ ClickDownloadAll
  \/ \E k \in 1..Len(zips) : ZipReady(k)

SpecAnyDraw == Init /\ [][NextAnyDraw]_vars

(* ============================== claims ================================= *)
Processing(q) == {i \in 1..Len(q) : q[i].status = "processing"}

Resolved(l) == l.op \in {"completed", "failed"}

\* the ids present in both q and r keep their records, except id
SameExcept(q, r, id) ==
  /\ Len(q) = Len(r)
  /\ \A i \in 1..Len(q) : q[i].id # id => r[i] = q[i]

\* C1: in every reachable state at most one job of the queue has status
\* 'processing'.
C1_SingleFlight == Cardinality(Processing(queue)) <= 1

\* C2: at most one Job Runner call is outstanding, and isProcessing is true
\* exactly while one call is outstanding.
C2_Serialized ==
  /\ Len(calls) <= 1
  /\ isProcessing <=> (Len(calls) = 1)

\* C3: a job that a step moves from 'idle' to 'processing' is the earliest
\* idle job of the queue before that step.
C3_FifoDispatch ==
  [][\A i \in 1..Len(queue) :
       (/\ i <= Len(queue')
        /\ queue'[i].id = queue[i].id
        /\ queue[i].status = "idle"
        /\ queue'[i].status = "processing")
       => \A j \in 1..(i - 1) : queue[j].status # "idle"]_vars

\* a dispatch has chosen among several idle jobs
C3_Witness ==
  /\ last.op = "dispatch"
  /\ \E j \in 1..Len(queue) :
       j > IndexOf(queue, last.id) /\ queue[j].status = "idle"

\* C4: retry(id) on a 'completed' or 'error' job leaves that job 'idle' with
\* result and failure absent, and changes no other job.
C4_RetryFinished ==
  [][(last'.op = "retry" /\ StatusOf(queue, last'.id) \in {"completed", "error"})
       => /\ SameExcept(queue, queue', last'.id)
          /\ \A i \in 1..Len(queue) :
               queue[i].id = last'.id =>
                 queue'[i] = [id |-> queue[i].id, file |-> queue[i].file,
                              status |-> "idle", subtitles |-> None,
                              error |-> None]]_vars

\* a finished job has been retried next to another finished job
C4_Witness ==
  /\ last.op = "retry"
  /\ last.was \in {"completed", "error"}
  /\ \E i \in 1..Len(queue) :
       queue[i].id # last.id /\ queue[i].status \in {"completed", "error"}

\* C5: retry(id) on an 'idle' or 'processing' job changes neither the queue
\* nor the in-flight flag.
C5_RetryNoOp ==
  [][(last'.op = "retry" /\ StatusOf(queue, last'.id) \in {"idle", "processing"})
       => queue' = queue /\ isProcessing' = isProcessing]_vars

\* C6: result is present iff status is 'completed', failure is present iff
\* status is 'error'.
C6_ResultFailure ==
  \A i \in 1..Len(queue) :
    /\ (queue[i].subtitles # None) <=> (queue[i].status = "completed")
    /\ (queue[i].error # None) <=> (queue[i].status = "error")

\* a failed job has been retried next to a completed job
C6_Witness ==
  /\ last.op = "retry"
  /\ last.was = "error"
  /\ StatusOf(queue, last.id) = "idle"
  /\ \E i \in 1..Len(queue) :
       queue[i].status = "completed" /\ queue[i].subtitles # None

\* C7: the status of a job that exists before and after a step changes only
\* idle->processing (dispatch), processing->completed (success),
\* processing->error (failure), completed->idle or error->idle (retry).
C7_StateMachine ==
  [][\A i \in 1..Len(queue) : \A j \in 1..Len(queue') :
       (queue'[j].id = queue[i].id /\ queue'[j].status # queue[i].status)
       => \/ /\ queue[i].status = "idle" /\ queue'[j].status = "processing"
             /\ last'.op = "dispatch"
          \/ /\ queue[i].status = "processing" /\ queue'[j].status = "completed"
             /\ last'.op = "completed"
          \/ /\ queue[i].status = "processing" /\ queue'[j].status = "error"
             /\ last'.op = "failed"
          \/ /\ queue[i].status \in {"completed", "error"}
             /\ queue'[j].status = "idle"
             /\ last'.op = "retry"]_vars

\* a job has gone processing->error while an idle job waits behind it
C7_Witness ==
  /\ last.op = "failed"
  /\ last.was = "processing"
  /\ StatusOf(queue, last.id) = "error"
  /\ \E i \in 1..Len(queue) : queue[i].status = "idle"

\* C8: remove(id) deletes exactly the job with that id, whatever its status;
\* the later resolution of a call whose job is gone changes no job.
C8_Remove ==
  [][/\ last'.op = "remove" =>
          /\ last'.id \notin Ids(queue')
          /\ queue' = SelectSeq(queue, LAMBDA q : q.id # last'.id)
     /\ (Resolved(last') /\ last'.id \notin Ids(queue)) => queue' = queue]_vars

\* the call of a job removed in flight has resolved (job 1 is still queued,
\* so the queue was never cleared) while another job is being processed
C8_Witness ==
  /\ Resolved(last)
  /\ last.was = "none"
  /\ 1 \in Ids(queue)
  /\ last.id # 1

\* C9: clear() leaves the queue empty and the in-flight flag false; a call in
\* flight at the clear changes no job when it resolves later.
C9_Clear ==
  [][/\ last'.op = "clear" => (queue' = <<>> /\ ~isProcessing')
     /\ (Resolved(last') /\ StatusOf(queue, last'.id) = "none") =>
          \A i \in 1..Len(queue) :
            /\ i <= Len(queue')
            /\ queue'[i].status = queue[i].status
            /\ queue'[i].subtitles = queue[i].subtitles
            /\ queue'[i].error = queue[i].error]_vars

\* a call that was in flight at a clear has resolved over jobs enqueued later
C9_Witness ==
  /\ Resolved(last)
  /\ last.was = "none"
  /\ queue # <<>>
  /\ \A i \in 1..Len(queue) : queue[i].id > last.id

\* C10: when the call of a job that still exists resolves, the job becomes
\* 'completed' with the returned text on success, 'error' with the failure's
\* message (or 'Processing failed' if it has none) on failure, and the
\* in-flight flag is false afterwards.
C10_Outcome ==
  [][(Resolved(last') /\ last'.id \in Ids(queue)) =>
       LET j == queue'[IndexOf(queue', last'.id)] IN
         /\ last'.id \in Ids(queue')
         /\ ~isProcessing'
         /\ last'.op = "completed" =>
              j.status = "completed" /\ j.subtitles = Some(last'.arg)
         /\ last'.op = "failed" =>
              /\ j.status = "error"
              /\ j.error = IF last'.arg.message \in {None, Some("")}
                             THEN Some("Processing failed")
                             ELSE last'.arg.message]_vars

\* a failure that carries no message has landed on its job
C10_Witness ==
  /\ last.op = "failed"
  /\ last.was = "processing"
  /\ last.arg.message = None
  /\ StatusOf(queue, last.id) = "error"

\* from some point on only the scheduler and the Job Runner take steps
UserStops == <>[][processNextItem \/ CallResolves]_vars

\* C11: if every call resolves and the user eventually stops, every idle job
\* is eventually dispatched: a job leaves 'idle' only by being dispatched (or
\* removed by the user), eventually no job is left idle, and the system does
\* not rest with the in-flight flag false and a job idle.
C11_Progress ==
  /\ [][\A i \in 1..Len(queue) :
          queue[i].status = "idle" =>
            StatusOf(queue', queue[i].id) \in {"idle", "processing", "none"}]_vars
  /\ UserStops => <>[](\A i \in 1..Len(queue) : queue[i].status # "idle")
  /\ EffectEnabled ~> (last.op = "dispatch")

\* a job has been dispatched behind a job that failed before it
C11_Witness ==
  /\ last.op = "dispatch"
  /\ \E i \in 1..Len(queue) :
       i < IndexOf(queue, last.id) /\ queue[i].status = "error"

\* C12: of two jobs of the queue, the later one does not go idle->processing
\* while the call of the earlier one is outstanding; remove leaves the
\* in-flight flag as it is, and the resolution of a call, orphaned or not,
\* clears the flag (whereupon C11 has the next idle job dispatched).
C12_SecondWaits ==
  [][/\ last'.op = "dispatch" =>
          \A k \in 1..Len(calls) : calls[k].id \notin Ids(queue)
     /\ last'.op = "remove" => isProcessing' = isProcessing
     /\ Resolved(last') => ~isProcessing']_vars

\* C13: the step that moves a job to 'error' changes no other job; a job
\* that is dispatched was 'idle', never 'error'; and whenever the in-flight
\* flag is false and a job is idle, whatever jobs are in 'error', the next
\* step dispatches an idle job.
C13_Isolation ==
  [][/\ last'.op = "failed" => SameExcept(queue, queue', last'.id)
     /\ \A i \in 1..Len(queue) :
          StatusOf(queue', queue[i].id) = "processing" =>
            queue[i].status \in {"idle", "processing"}
     /\ (~isProcessing /\ \E i \in 1..Len(queue) : queue[i].status = "idle") =>
          /\ last'.op = "dispatch"
          /\ StatusOf(queue, last'.id) = "idle"
          /\ StatusOf(queue', last'.id) = "processing"]_vars

\* a job has failed next to a completed job
C13_Witness ==
  /\ last.op = "failed"
  /\ last.was = "processing"
  /\ \E i \in 1..Len(queue) :
       queue[i].id # last.id /\ queue[i].status = "completed"

\* C14: enqueue appends one new idle job per item at the end of the queue, in
\* the order given, without result or failure; it changes no existing job,
\* not the in-flight flag, and starts no call.
C14_Enqueue ==
  [][last'.op = "enqueue" =>
       LET n == nextId' - nextId IN
         /\ n >= 1
         /\ Len(queue') = Len(queue) + n
         /\ SubSeq(queue', 1, Len(queue)) = queue
         /\ \A k \in 1..n :
              /\ queue'[Len(queue) + k] =
                   [id |-> nextId + k - 1, file |-> FileAt(k), status |-> "idle",
                    subtitles |-> None, error |-> None]
              /\ (nextId + k - 1) \notin Ids(queue)
         /\ isProcessing' = isProcessing
         /\ calls' = calls]_vars

\* a job has been enqueued behind a job whose call is in flight
C14_Witness ==
  /\ last.op = "enqueue"
  /\ isProcessing
  /\ calls # <<>>
  /\ \E i \in 1..Len(queue) : queue[i].id < last.id /\ queue[i].status = "processing"

\* C15: two jobs that are in the queue before and after a step keep their
\* relative order, and a job that is new after the step stands behind every
\* job that was there before: the queue changes shape by append at the end
\* and by deletion only (the ids of the queue are distinct; a step that
\* keeps the ids where they are is the first case, any other the second).
C15_OrderStable ==
  [][/\ \A k \in 1..Len(queue') : \A l \in (k + 1)..Len(queue') :
          queue'[k].id # queue'[l].id
     /\ \/ /\ Len(queue') = Len(queue)
           /\ \A i \in 1..Len(queue) : queue'[i].id = queue[i].id
        \/ \A k \in 1..Len(queue') : \A l \in 1..Len(queue') :
             \A i \in 1..Len(queue) :
               queue[i].id = queue'[k].id =>
                 /\ \A j \in 1..Len(queue) :
                      (i < j /\ queue[j].id = queue'[l].id) => k < l
                 /\ (\A j \in 1..Len(queue) : queue[j].id # queue'[l].id)
                      => k < l]_vars

\* job 3 was enqueued behind the jobs 1 and 2, then job 2 was removed from
\* between them: the jobs 1 and 3 were in the queue before and after the
\* removal, the jobs 1 and 2 before and after the enqueue
C15_Witness ==
  /\ last.op = "remove"
  /\ last.id = 2
  /\ Len(queue) = 2
  /\ queue[1].id = 1
  /\ queue[2].id = 3

Finished(id) == StatusOf(queue, id) \in {"completed", "error"}

\* the model has room for one more job
Room == nextId <= MaxIds /\ Len(queue) < MaxQueue

\* C16: while a call is outstanding and the in-flight flag is true, enqueue,
\* remove of any job (the processing one included) and retry of a finished
\* job remain enabled.
C16_AllEnabled ==
  (isProcessing /\ calls # <<>>) =>
    /\ Room => ENABLED Upload(<<FileAt(1)>>)
    /\ \A id \in Ids(queue) : ENABLED ClickRemove(id)
    /\ \A id \in Ids(queue) : Finished(id) => ENABLED ClickRetry(id)

\* C16 (amended): while a call is outstanding and the in-flight flag is true,
\* the handlers of enqueue, remove and retry do not consult the flag: invoked,
\* they take effect in that step and leave the flag and the call alone. The
\* rendered controls offer remove for every job but the processing one and
\* retry for every finished job; they offer no enqueue.
C16_Enabled ==
  (isProcessing /\ calls # <<>>) =>
    /\ Room => ENABLED (/\ handleFilesSelect(<<FileAt(1)>>, FreshIds(1))
                        /\ Len(queue') = Len(queue) + 1
                        /\ isProcessing' /\ calls' = calls)
    /\ \A id \in Ids(queue) :
         /\ ENABLED (/\ removeItem(id)
                     /\ id \notin Ids(queue')
                     /\ isProcessing' /\ calls' = calls)
         /\ Finished(id) =>
              ENABLED (/\ handleRetry(id)
                       /\ StatusOf(queue', id) = "idle"
                       /\ isProcessing' /\ calls' = calls)
         /\ (ENABLED ClickRemove(id)) <=> (StatusOf(queue, id) # "processing")
         /\ Finished(id) => ENABLED ClickRetry(id)
    /\ ~ENABLED (\E files \in Batches : Upload(files))

\* a call is outstanding for the second job while the first one is finished
C16_Witness ==
  /\ isProcessing
  /\ calls # <<>>
  /\ Len(queue) = 2
  /\ Finished(queue[1].id)
  /\ queue[2].status = "processing"

\* C17: no job is 'completed' with an empty result: a call whose text is
\* empty, as the model returned it or after the fences are stripped and the
\* whitespace is trimmed, ends in 'error'.
C17_EmptyIsFailure ==
  \A i \in 1..Len(queue) :
    queue[i].status = "completed" => queue[i].subtitles # Some(<<>>)

\* C18: when fileToBase64 fails for a dispatched job, the job ends in 'error'
\* with the failure message of the encoder's event (the fallback, as the
\* event has no message; not the message generateSubtitles would have thrown,
\* which is not called), the in-flight flag is false afterwards, and the jobs
\* that are idle stay idle, ready for the dispatch C11 and C13 promise.
C18_EncodingFailure ==
  [][(last'.op = "failed" /\ last'.arg = ProgressEvent) =>
       /\ StatusOf(queue, last'.id) = "processing"
       /\ StatusOf(queue', last'.id) = "error"
       /\ queue'[IndexOf(queue', last'.id)].error = Some(MsgFallback)
       /\ queue'[IndexOf(queue', last'.id)].subtitles = None
       /\ ~isProcessing'
       /\ \A i \in 1..Len(queue) :
            queue[i].status = "idle" => queue'[i].status = "idle"]_vars

\* the encoder has failed without an API key, an idle job waits behind
C18_Witness ==
  /\ last.op = "failed"
  /\ last.arg = ProgressEvent
  /\ API_KEY = ""
  /\ StatusOf(queue, last.id) = "error"
  /\ EffectEnabled

\* pat occurs somewhere in s
Contains(s, pat, ci) == \E i \in 1..Len(s) : MatchAt(s, i, pat, ci)

\* C19: the result of a completed job contains no code fence, with or
\* without the tag vtt in any letter case, and begins with the header WEBVTT,
\* whatever text the model returned.
C19_Framing ==
  \A i \in 1..Len(queue) :
    queue[i].status = "completed" =>
      /\ ~Contains(queue[i].subtitles[1], Fence, FALSE)
      /\ ~Contains(queue[i].subtitles[1], FenceVtt, TRUE)
      /\ MatchAt(queue[i].subtitles[1], 1, Header, FALSE)

\* the text without its carriage returns
NoCR(s) == SelectSeq(s, LAMBDA c : c # "\r")

\* C20: for a well-formed input, the header followed by n cues with blank
\* lines between them, the output of vttToSrt split on blank lines has
\* exactly n blocks, the i-th of which holds the time-range line of the i-th
\* cue with commas for its full stops, and no line of the output is a header.
C20_RoundTrip ==
  last.op = "downloadSrt" =>
    \A title \in Titles : \A shapes \in ShapeSeqs :
    \A eol \in Eols : \A gap \in 1..2 :
      queue[1].subtitles[1] = Doc(title, shapes, eol, gap) =>
        LET out == splitBlocks(NoCR(last.arg), 1, <<>>) IN
          /\ Len(out) = Len(shapes)
          /\ \A i \in 1..Len(shapes) :
               /\ i <= Len(out)
               /\ \E l \in 1..Len(splitLines(out[i], 1, <<>>)) :
                    splitLines(out[i], 1, <<>>)[l] = dotsToCommas(TimeLine(i))
          /\ \A b \in 1..Len(out) :
               \A l \in 1..Len(splitLines(out[b], 1, <<>>)) :
                 ~MatchAt(splitLines(out[b], 1, <<>>)[l], 1, Header, FALSE)

\* the text handed to the converter and the blocks it holds: the text behind
\* the stripped header, cut at its blank lines, whatever the line terminator
Input == queue[1].subtitles[1]

BlocksOf(x) == splitBlocks(NoCR(cleanVtt(x)), 1, <<>>)

HasTimeLine(block) == includes(block, Arrow)

\* the blocks of the output, cut where the converter joined them
OutBlocks(out) == IF out = <<>> THEN <<>> ELSE splitBlocks(out, 1, <<>>)

\* b is a with commas for some of its full stops
SameUpToDots(a, b) ==
  /\ Len(a) = Len(b)
  /\ \A p \in 1..Len(a) : b[p] = a[p] \/ (a[p] = "." /\ b[p] = ",")

\* C21: for every input, the blocks of the output are, in order, exactly the
\* blocks of the input that hold a line with the time-range separator (full
\* stops possibly turned into commas), so that a block without such a line is
\* absent; no block of the output is empty or white space only, and the
\* output is its blocks joined by exactly one blank line.
C21_MalformedDropped ==
  last.op = "convert" =>
    LET kept == SelectSeq(BlocksOf(Input), HasTimeLine)
        out == OutBlocks(last.arg)
    IN /\ Len(out) = Len(kept)
       /\ \A i \in 1..Len(out) :
            /\ i <= Len(kept)
            /\ SameUpToDots(kept[i], NoCR(out[i]))
            /\ Trim(out[i]) # <<>>
       /\ last.arg = join(out, <<"\n", "\n">>)

\* C21 for the inputs without a carriage return
C21_LineFeedsOnly ==
  (\A p \in 1..Len(Input) : Input[p] # "\r") => C21_MalformedDropped

\* C22: the empty text converts to the empty text, and so does every text
\* without a line holding the time-range separator (the header alone, stray
\* text only).
C22_NoCueIsEmpty ==
  (last.op = "convert" /\ ~includes(Input, Arrow)) => last.arg = <<>>

\* the converter has been applied to the empty text
C22_WitnessEmpty ==
  /\ last.op = "convert"
  /\ Input = <<>>
  /\ last.arg = <<>>

\* the converter has been applied to stray text in two blocks
C22_Witness ==
  /\ last.op = "convert"
  /\ Input = <<"x", "\n", "\n", "x">>
  /\ last.arg = <<>>

\* the blocks the converter splits off (at two or more line feeds) and keeps
Retained(x) == SelectSeq(splitBlocks(cleanVtt(x), 1, <<>>), HasTimeLine)

\* line is rewritten as lineOut: commas for all its full stops, nothing else
Rewritten(line, lineOut) ==
  /\ SameUpToDots(line, lineOut)
  /\ \A p \in 1..Len(lineOut) : lineOut[p] # "."

\* the output block has the lines of the block, those of the set rewritten
\* and the others as they are
LinesKept(block, outBlock, rewritten(_)) ==
  LET li == splitLines(block, 1, <<>>)
      lo == splitLines(outBlock, 1, <<>>)
  IN /\ Len(lo) = Len(li)
     /\ \A l \in 1..Len(li) :
          /\ l <= Len(lo)
          /\ IF l \in rewritten(li) THEN Rewritten(li[l], lo[l])
                                    ELSE lo[l] = li[l]

TimeLines(li) == {l \in 1..Len(li) : includes(li[l], Arrow)}

FirstTimeLine(li) ==
  {l \in TimeLines(li) : \A k \in TimeLines(li) : l <= k}

\* C23 as stated: in each retained block every line holding the time-range
\* separator has all its full stops replaced by commas, and every other line
\* is emitted as it is, none added and none removed.
C23_EveryTimeLine ==
  last.op = "convert" =>
    LET kept == Retained(Input)
        out == OutBlocks(last.arg)
    IN /\ Len(out) = Len(kept)
       /\ \A i \in 1..Len(kept) :
            i <= Len(out) /\ LinesKept(kept[i], out[i], TimeLines)

\* C23 amended: in each retained block the first line holding the time-range
\* separator has all its full stops replaced by commas, and every other line,
\* a later line with the separator included, is emitted as it is, none added
\* and none removed.
C23_FirstTimeLine ==
  last.op = "convert" =>
    LET kept == Retained(Input)
        out == OutBlocks(last.arg)
    IN /\ Len(out) = Len(kept)
       /\ \A i \in 1..Len(kept) :
            i <= Len(out) /\ LinesKept(kept[i], out[i], FirstTimeLine)

\* a cue with an identifier and a text line with a full stop has been
\* converted: the time-range line has commas, the text keeps its full stop
C23_Witness ==
  /\ last.op = "convert"
  /\ Input = Header \o <<"\n", "\n", "c", "\n">> \o TimeLine(1) \o <<"\n", "x", ".">>
  /\ last.arg = <<"c", "\n", "1", ",", "0", "-", "-", ">", "1", ",", "5",
                  "\n", "x", ".">>

\* a line that is the header token with nothing but white space behind it
BareHeader(line) ==
  /\ MatchAt(line, 1, Header, FALSE)
  /\ \A p \in (Len(Header) + 1)..Len(line) : line[p] \in Whitespace

BlankLine(line) == \A p \in 1..Len(line) : line[p] \in Whitespace

\* a line that is a header: the token alone or with a title behind a blank
HeaderLine(line) ==
  /\ MatchAt(line, 1, Header, FALSE)
  /\ Len(line) > Len(Header) => line[Len(Header) + 1] \in Whitespace

\* the text behind its leading header line: if the first line is a bare
\* header and not the last line, that line and the blank lines behind it
\* (but not a blank last line) are dropped
Rest(x) ==
  LET lines == splitLines(x, 1, <<>>)
      n == Len(lines)
  IN IF n >= 2 /\ BareHeader(lines[1])
       THEN LET k == CHOOSE k \in 1..(n - 1) :
                       /\ \A j \in 2..k : BlankLine(lines[j])
                       /\ k = n - 1 \/ ~BlankLine(lines[k + 1])
            IN join(SubSeq(lines, k + 1, n), <<"\n">>)
       ELSE x

\* C24 as stated: no line of the output is a header line.
C24_NoHeaderLine ==
  last.op = "convert" =>
    LET lo == splitLines(NoCR(last.arg), 1, <<>>)
    IN \A l \in 1..Len(lo) : ~HeaderLine(lo[l])

\* C24 amended: a bare header line at the start, if another line follows, is
\* removed with the blank lines behind it, and the output is made of the
\* blocks of the rest that hold a time-range line; without such a header line
\* the rest is the whole text, and its first block is treated as any other.
C24_HeaderStripped ==
  last.op = "convert" =>
    LET kept == SelectSeq(splitBlocks(Rest(Input), 1, <<>>), HasTimeLine)
        out == OutBlocks(last.arg)
    IN /\ Len(out) = Len(kept)
       /\ \A i \in 1..Len(kept) :
            i <= Len(out) /\ SameUpToDots(kept[i], out[i])

\* the header, two blank lines and one cue have been converted
C24_Witness ==
  /\ last.op = "convert"
  /\ Input = Header \o <<"\n", "\n", "\n">> \o TimeLine(1) \o <<"\n", "x">>
  /\ last.arg = <<"1", ",", "0", "-", "-", ">", "1", ",", "5", "\n", "x">>

\* C29 as stated: converting the output again changes nothing.
C29_Idempotent ==
  last.op = "convert" => vttToSrt(last.arg) = last.arg

\* C29 amended: converting the output again changes nothing, unless the
\* output begins with a bare header line that another line follows.
C29_IdempotentBehindHeader ==
  (last.op = "convert" /\ Rest(last.arg) = last.arg) =>
    vttToSrt(last.arg) = last.arg

\* a block with two time-range lines has been converted: the second keeps
\* its full stops, and converting the output again leaves it as it is
C29_Witness ==
  /\ last.op = "convert"
  /\ Input = TimeLine(1) \o <<"\n">> \o TimeLine(1)
  /\ last.arg = dotsToCommas(TimeLine(1)) \o <<"\n">> \o TimeLine(1)
  /\ vttToSrt(last.arg) = last.arg

\* the jobs of q that are completed with a non-empty result
Done(q) ==
  {i \in 1..Len(q) : /\ q[i].status = "completed"
                      /\ q[i].subtitles # None
                      /\ q[i].subtitles # Some(<<>>)}

\* the single exports hand over the result as it is and its conversion, the
\* archive is handed over as it was composed; an export leaves the queue and
\* the flag alone
SingleExport ==
  /\ last'.op \in {"downloadAll", "zipSaved", "downloadVtt", "downloadSrt"} =>
       queue' = queue /\ isProcessing' = isProcessing
  /\ last'.op = "zipSaved" =>
       \E k \in 1..Len(zips) : last'.arg = zips[k] /\ zips' = RemoveAt(zips, k)
  /\ last'.op = "downloadVtt" =>
       /\ StatusOf(queue, last'.id) = "completed"
       /\ last'.arg = queue[IndexOf(queue, last'.id)].subtitles[1]
  /\ last'.op = "downloadSrt" =>
       /\ StatusOf(queue, last'.id) = "completed"
       /\ last'.arg = vttToSrt(queue[IndexOf(queue, last'.id)].subtitles[1])

\* the archive has one entry for each job that is completed with a non-empty
\* result, the conversion of that result under the name of the job's file,
\* as many entries as there are such jobs, and no other entry
ArchiveOfDone ==
  LET entry(i) == [name |-> baseName(queue[i].file) \o <<".", "s", "r", "t">>,
                   content |-> vttToSrt(queue[i].subtitles[1])]
  IN /\ \A i \in Done(queue) : entry(i) \in last'.arg
     /\ \A e \in last'.arg : \E i \in Done(queue) : e = entry(i)
     /\ Cardinality(last'.arg) = Cardinality(Done(queue))

\* C25: Download All produces one archive entry for each job that is
\* completed with a non-empty result, as many entries as there are such jobs,
\* each the conversion of the job's result, and none for any other job; the
\* single exports hand over the result as it is and its conversion; no export
\* changes the queue or the flag.
C25_Export ==
  [][ /\ SingleExport
      /\ last'.op = "downloadAll" => ArchiveOfDone ]_vars

\* C25 for the queues whose completed jobs have files of different names up
\* to the extension
C25_ExportDistinctNames ==
  [][ /\ SingleExport
      /\ ( /\ last'.op = "downloadAll"
            /\ \A i, j \in Done(queue) :
                 baseName(queue[i].file) = baseName(queue[j].file) => i = j )
           => ArchiveOfDone ]_vars

\* two jobs with files of different names are completed with non-empty
\* results and the archive has been produced
C25_DistinctNamesReached ==
  /\ last.op = "downloadAll"
  /\ Cardinality(Done(queue)) = 2
  /\ Cardinality(last.arg) = 2

\* C26: through the rendered controls, retry is invoked only on a job whose
\* status is 'error' or 'completed', never on an idle or processing one, and
\* remove is never invoked on a job whose status is 'processing'.
C26_Guards ==
  [][ /\ last'.op = "retry" =>
           /\ last'.was \in {"error", "completed"}
           /\ StatusOf(queue, last'.id) \in {"error", "completed"}
      /\ last'.op = "remove" =>
           /\ last'.was \in {"idle", "error", "completed"}
           /\ StatusOf(queue, last'.id) # "processing" ]_vars

\* a completed job has been retried while another job is processing
C26_Witness ==
  /\ last.op = "retry"
  /\ last.was = "completed"
  /\ StatusOf(queue, last.id) = "idle"
  /\ Processing(queue) # {}

\* C27: the resolution of a call changes a job only if that job is in status
\* 'processing' (a job reset to 'idle' in the meantime is left alone), and no
\* job has two outstanding calls.
C27_NoStaleUpdate ==
  [][ /\ (Resolved(last') /\ queue' # queue) =>
           StatusOf(queue, last'.id) = "processing"
      /\ \A k, l \in 1..Len(calls') :
           calls'[k].id = calls'[l].id => k = l ]_vars

\* C28: whenever the in-flight flag is true a call is outstanding, and the
\* resolution of any call sets the flag to false; so the flag is never true
\* with no call outstanding, whether or not an idle job is waiting.
C28_NeverStuck ==
  /\ [](isProcessing => calls # <<>>)
  /\ [][Resolved(last') => ~isProcessing']_vars

\* the processing job has been removed while its call is outstanding, and an
\* idle job waits behind the flag
C28_Witness ==
  /\ isProcessing
  /\ Len(calls) = 1
  /\ calls[1].id \notin Ids(queue)
  /\ last.op = "remove"
  /\ \E i \in 1..Len(queue) : queue[i].status = "idle"

====
